---- MODULE Spec2Model ----
(***************************************************************************)
(* State-machine model of peregrine/tracking.py: the navigation-bit        *)
(* synchronisers (NavBitSync and its four subclasses) and the per-channel  *)
(* two-stage tracking driver track.do_channel.                             *)
(*                                                                         *)
(* Prompt correlations are integers (sign times a constant magnitude), one *)
(* correlator call consumes one 1 ms block of samples, and the external    *)
(* swiftnav objects (NavMsg, the correlator) are the environment: their    *)
(* outputs are chosen nondeterministically.                                *)
(***************************************************************************)
EXTENDS Integers, Sequences, FiniteSets, TLC

VARIABLES
  nbs,     \* a bit synchroniser driven directly (SpecNBS, SpecPattern)
  feed,    \* the input generator of that synchroniser
  cfg,     \* track()'s parameters after its entry code
  trk,     \* track(): where it is, the channel it runs, the results so far
  drv,     \* do_channel's locals for the channel being tracked (multi = False)
  par      \* the parallel dispatch: do_channel's locals in each worker

vars == <<nbs, feed, cfg, trk, drv, par>>

(***************************************************************************)
(* Bounds of the model.                                                    *)
(***************************************************************************)
MaxCalls == 42          \* update calls on a synchroniser fed free inputs
MaxEdges == 2           \* sign changes allowed in a free input sequence
MaxPatternCalls == 480  \* update calls on a synchroniser fed a bit pattern
MaxAmp == 2             \* prompt magnitudes 1..MaxAmp
MaxTrackMs == 14        \* samples hold at most MarginMs + MaxTrackMs ms
MaxStage2 == 24         \* stage2_coherent_ms in 0..MaxStage2 (0: not set)
MaxEntryMs == 4         \* SpecTrack: samples hold about MarginMs + MaxEntryMs ms
MaxLongMs == 398        \* SpecProgress: ms_to_track up to MaxLongMs

(***************************************************************************)
(* Program constants.                                                      *)
(***************************************************************************)
BitLen == 20               \* bit_phase wraps modulo 20 (one nav bit = 20 ms)
MatchBitThres == 20        \* NBSMatchBit.__init__ default thres
HistogramThres == 10       \* NBSHistogram.__init__ default thres
MatchEdgeThres == 100000   \* NBSMatchEdge.__init__ default thres
MatchEdgeLen == 40         \* NBSMatchEdge ring buffer length
MarginMs == 22             \* safety margin of samples_length_ms
None == -1                 \* nav_msg.update returning no TOW
NaN == -1000               \* np.NAN, the preallocated tow entries
ProgressEvery == 200       \* a progress increment is put every 200 steps

Variants == {"MatchBit", "MatchEdge", "Histogram", "LibSwiftNav"}

Phases == 0 .. (BitLen - 1)

Abs(x) == IF x < 0 THEN -x ELSE x

Zeros(n) == [p \in 0 .. (n - 1) |-> 0]

(***************************************************************************)
(* numpy / builtin helpers used by the synchronisers.                      *)
(***************************************************************************)
\* max(a) over a non-empty array
ArrMax(a) == CHOOSE m \in {a[p] : p \in DOMAIN a} : \A q \in DOMAIN a : a[q] <= m

\* np.argmax(a): the first index holding the maximum
ArgMax(a) == CHOOSE p \in DOMAIN a :
                /\ a[p] = ArrMax(a)
                /\ \A q \in DOMAIN a : a[q] = ArrMax(a) => p <= q

\* sh = sorted(a); sh[-1] - sh[-2]: largest minus second largest (with
\* multiplicity, so 0 when the maximum is attained twice)
TopGap(a) ==
  LET rest == {a[p] : p \in DOMAIN a \ {ArgMax(a)}}
      second == CHOOSE m \in rest : \A x \in rest : x <= m
  IN  ArrMax(a) - second

\* max(np.abs(a))
MaxAbs(a) == ArrMax([p \in DOMAIN a |-> Abs(a[p])])

(***************************************************************************)
(* swiftnav.nav_msg.NavMsg, the external decoder.  Only bit_phase and      *)
(* bit_phase_ref are read by this file.  update(corr, ms) advances         *)
(* bit_phase by ms modulo 20 and then either keeps bit_phase_ref, drops it *)
(* (-1: no bit phase known) or adopts the phase it is at.                  *)
(***************************************************************************)
NavMsgInit == [bit_phase |-> 0, bit_phase_ref |-> -1]

NavMsgOutcomes(nm, ms) ==
  LET bp == (nm.bit_phase + ms) % BitLen
  IN  {[bit_phase |-> bp, bit_phase_ref |-> r] : r \in {nm.bit_phase_ref, -1, bp}}

(***************************************************************************)
(* NavBitSync.__init__ and the subclasses' __init__.  One record holds the *)
(* fields of every subclass; a subclass leaves the others' fields alone.   *)
(***************************************************************************)
NavBitSyncInit(variant, thres) ==
  [ variant         |-> variant,
    bit_phase       |-> 0,
    bit_integrate   |-> 0,
    synced          |-> FALSE,
    bits            |-> <<>>,
    bit_phase_ref   |-> -1,
    count           |-> 0,
    thres           |-> thres,
    hist            |-> Zeros(BitLen),
    acc             |-> 0,
    score           |-> 0,
    prev            |-> IF variant = "MatchEdge" THEN Zeros(MatchEdgeLen)
                        ELSE Zeros(BitLen),
    bit_phase_count |-> 0,
    prev_corr       |-> 0,
    nav_msg         |-> NavMsgInit ]

DefaultThres(variant) ==
  CASE variant = "MatchBit"  -> MatchBitThres
    [] variant = "MatchEdge" -> MatchEdgeThres
    [] variant = "Histogram" -> HistogramThres
    [] OTHER                 -> 0

(***************************************************************************)
(* NBSMatchBit.update_bit_sync                                             *)
(***************************************************************************)
\* the threshold test without its factor 2
MatchBit_update_bit_sync_HalfThreshold(s, corr, ms) ==
  LET bi == s.bit_integrate - s.prev[s.bit_phase]
      pv == [s.prev EXCEPT ![s.bit_phase] = corr]
      s1 == [s EXCEPT !.bit_integrate = bi, !.prev = pv]
  IN  IF s1.count >= 20
      THEN LET h  == [s1.hist EXCEPT ![s1.bit_phase % 20] = @ + Abs(bi)]
               s2 == [s1 EXCEPT !.hist = h]
           IN  IF s2.bit_phase = 19
               THEN LET sc == TopGap(h)
                        s3 == [s2 EXCEPT !.score = sc]
                    IN  IF sc > s3.thres * MaxAbs(pv)
                        THEN [s3 EXCEPT !.synced = TRUE,
                                        !.bit_phase_ref = ArgMax(h)]
                        ELSE s3
               ELSE s2
      ELSE s1

\* the ring buffer overwritten before its old entry is subtracted
MatchBit_update_bit_sync_StaleRing(s, corr, ms) ==
  LET pv == [s.prev EXCEPT ![s.bit_phase] = corr]
      bi == s.bit_integrate - pv[s.bit_phase]
      s1 == [s EXCEPT !.bit_integrate = bi, !.prev = pv]
  IN  IF s1.count >= 20
      THEN LET h  == [s1.hist EXCEPT ![s1.bit_phase % 20] = @ + Abs(bi)]
               s2 == [s1 EXCEPT !.hist = h]
           IN  IF s2.bit_phase = 19
               THEN LET sc == TopGap(h)
                        s3 == [s2 EXCEPT !.score = sc]
                    IN  IF sc > s3.thres * 2 * MaxAbs(pv)
                        THEN [s3 EXCEPT !.synced = TRUE,
                                        !.bit_phase_ref = ArgMax(h)]
                        ELSE s3
               ELSE s2
      ELSE s1

MatchBit_update_bit_sync(s, corr, ms) ==
  LET bi == s.bit_integrate - s.prev[s.bit_phase]
      pv == [s.prev EXCEPT ![s.bit_phase] = corr]
      s1 == [s EXCEPT !.bit_integrate = bi, !.prev = pv]
  IN  IF s1.count >= 20
      THEN LET h  == [s1.hist EXCEPT ![s1.bit_phase % 20] = @ + Abs(bi)]
               s2 == [s1 EXCEPT !.hist = h]
           IN  IF s2.bit_phase = 19
               THEN LET sc == TopGap(h)
                        s3 == [s2 EXCEPT !.score = sc]
                    IN  IF sc > s3.thres * 2 * MaxAbs(pv)
                        THEN [s3 EXCEPT !.synced = TRUE,
                                        !.bit_phase_ref = ArgMax(h)]
                        ELSE s3
               ELSE s2
      ELSE s1

(***************************************************************************)
(* NBSHistogram.update_bit_sync                                            *)
(***************************************************************************)
Histogram_update_bit_sync(s, corr, ms) ==
  LET dot == corr * s.prev_corr
      s1  == [s EXCEPT !.prev_corr = corr]
  IN  IF dot < 0
      THEN LET h  == [s1.hist EXCEPT ![s1.bit_phase % 20] = @ + (-dot)]
               s2 == [s1 EXCEPT !.hist = h,
                                !.bit_phase_count = @ + 1]
           IN  IF s2.bit_phase_count = s2.thres
               THEN [s2 EXCEPT !.synced = TRUE,
                               !.bit_phase_ref = ArgMax(h),
                               !.hist = Zeros(BitLen),
                               !.bit_phase_count = 0]
               ELSE s2
      ELSE s1

(***************************************************************************)
(* NBSMatchEdge.update_bit_sync                                            *)
(***************************************************************************)
MatchEdge_update_bit_sync(s, corr, ms) ==
  LET bp40 == s.bit_phase % 40
      a    == s.acc + corr - 2 * s.prev[(bp40 - 20) % 40] + s.prev[bp40]
      pv   == [s.prev EXCEPT ![bp40] = corr]
      s1   == [s EXCEPT !.acc = a, !.prev = pv]
  IN  IF s1.bit_phase >= 40
      THEN LET h  == [s1.hist EXCEPT ![(bp40 + 1) % 20] = @ + Abs(a)]
               s2 == [s1 EXCEPT !.hist = h]
           IN  IF bp40 % 20 = 19
               THEN IF TopGap(h) > s2.thres
                    THEN [s2 EXCEPT !.synced = TRUE,
                                    !.bit_phase_ref = ArgMax(h)]
                    ELSE s2
               ELSE s2
      ELSE s1

(***************************************************************************)
(* NBSLibSwiftNav.update_bit_sync: nm2 is the decoder's state after its    *)
(* own update(corr, ms).                                                   *)
(***************************************************************************)
LibSwiftNav_update_bit_sync(s, corr, ms, nm2) ==
  [s EXCEPT !.nav_msg = nm2,
            !.bit_phase_ref = nm2.bit_phase_ref,
            !.synced = (nm2.bit_phase_ref >= 0)]

\* dispatch of self.update_bit_sync(corr, ms)
update_bit_sync(s, corr, ms, nm2) ==
  CASE s.variant = "MatchBit"    -> MatchBit_update_bit_sync(s, corr, ms)
    [] s.variant = "MatchEdge"   -> MatchEdge_update_bit_sync(s, corr, ms)
    [] s.variant = "Histogram"   -> Histogram_update_bit_sync(s, corr, ms)
    [] s.variant = "LibSwiftNav" -> LibSwiftNav_update_bit_sync(s, corr, ms, nm2)

(***************************************************************************)
(* NavBitSync.update(corr, ms)                                             *)
(***************************************************************************)
\* the bit decision taken on every wrap of bit_phase instead of at bit_phase_ref
BitDecision_AtPhaseZero(s) ==
  IF s.bit_phase = 0
  THEN [s EXCEPT !.bits = Append(@, IF s.bit_integrate > 0 THEN 1 ELSE 0),
                 !.bit_integrate = 0]
  ELSE s

\* the bit decision without the reset of bit_integrate
BitDecision_NoReset(s) ==
  IF s.bit_phase = s.bit_phase_ref
  THEN [s EXCEPT !.bits = Append(@, IF s.bit_integrate > 0 THEN 1 ELSE 0)]
  ELSE s

\* the bit decision at the end of update
BitDecision(s) ==
  IF s.bit_phase = s.bit_phase_ref
  THEN [s EXCEPT !.bits = Append(@, IF s.bit_integrate > 0 THEN 1 ELSE 0),
                 !.bit_integrate = 0]
  ELSE s

\* update that keeps calling update_bit_sync once synced
NavBitSyncUpdate_NoSyncedGuard(s, corr, ms, nm2) ==
  LET s1 == [s EXCEPT !.bit_phase = (@ + ms) % 20,
                      !.count = @ + 1,
                      !.bit_integrate = @ + corr]
  IN  BitDecision(update_bit_sync(s1, corr, ms, nm2))

NavBitSyncUpdate(s, corr, ms, nm2) ==
  LET s1 == [s EXCEPT !.bit_phase = (@ + ms) % 20,
                      !.count = @ + 1,
                      !.bit_integrate = @ + corr]
      s2 == IF ~s1.synced THEN update_bit_sync(s1, corr, ms, nm2) ELSE s1
  IN  BitDecision(s2)

(***************************************************************************)
(* A synchroniser driven directly.                                         *)
(*   feed.mode = "free":    each call takes any sign, with at most         *)
(*                          MaxEdges sign changes, and the run's ms        *)
(*   feed.mode = "pattern": ms = 1 and the sign follows a bit pattern      *)
(***************************************************************************)
FeedIdle == [mode |-> "idle"]

\* the driver's variables while only a synchroniser is exercised
DriverIdle ==
  /\ cfg = [mode |-> "idle"]
  /\ trk = [pc |-> "idle"]
  /\ drv = [pc |-> "none"]
  /\ par = [pc |-> "idle"]

\* The bit pattern: the call n (1, 2, ...) has bit phase n % 20 after the
\* increment.  kind "alt": bits of 20 calls with alternating signs, a new bit
\* starting on every call of bit phase k, the bit holding call 1 positive.
\* kind "half": period 20, ten positive calls then ten negative, the positive
\* run starting at bit phase k.
PatternSign(kind, k, n) ==
  IF kind = "alt"
  THEN IF (((n - k) + 2 * BitLen) \div BitLen) % 2 = (((1 - k) + 2 * BitLen) \div BitLen) % 2
       THEN 1 ELSE -1
  ELSE IF ((n - k) + 2 * BitLen) % BitLen < 10 THEN 1 ELSE -1

\* a threshold small enough for a synchroniser to sync within MaxCalls calls
SmallThres(variant) == IF variant = "MatchBit" THEN 0 ELSE 1

InitFree ==
  /\ \E v \in Variants :
       \E t \in {DefaultThres(v), SmallThres(v)} : nbs = NavBitSyncInit(v, t)
  /\ \E sg \in {-1, 1}, ms \in {1, 3, 5} :
       feed = [mode |-> "free", last |-> sg, edges |-> 0, ms |-> ms]
  /\ DriverIdle

FreeUpdate ==
  /\ feed.mode = "free"
  /\ nbs.count < MaxCalls
  /\ \E corr \in {-1, 1} :
       /\ (corr # feed.last) => feed.edges < MaxEdges
       /\ \E nm2 \in IF nbs.variant = "LibSwiftNav"
                     THEN NavMsgOutcomes(nbs.nav_msg, feed.ms)
                     ELSE {nbs.nav_msg} :
            nbs' = NavBitSyncUpdate(nbs, corr, feed.ms, nm2)
       /\ feed' = [feed EXCEPT !.last = corr,
                               !.edges = IF corr # feed.last THEN @ + 1 ELSE @]
  /\ UNCHANGED <<cfg, trk, drv, par>>

NextFree == FreeUpdate

SpecNBS == InitFree /\ [][NextFree]_vars

InitPattern ==
  /\ nbs = NavBitSyncInit("MatchBit", MatchBitThres)
  /\ \E kind \in {"alt", "half"}, k \in Phases, a \in 1 .. MaxAmp :
       feed = [mode |-> "pattern", kind |-> kind, k |-> k, amp |-> a]
  /\ DriverIdle

PatternUpdate ==
  /\ feed.mode = "pattern"
  /\ nbs.count < MaxPatternCalls
  /\ nbs' = NavBitSyncUpdate(nbs,
                             feed.amp * PatternSign(feed.kind, feed.k, nbs.count + 1),
                             1, nbs.nav_msg)
  /\ UNCHANGED <<feed, cfg, trk, drv, par>>

NextPattern == PatternUpdate

SpecPattern == InitPattern /\ [][NextPattern]_vars

(***************************************************************************)
(* track(): the entry code, lines 118-137.  The two times that may be      *)
(* fractional, the length of the sample buffer and the ms_to_track         *)
(* argument, are held in half milliseconds (names ending in _x2).  s2 is   *)
(* the stage2_coherent_ms argument (0: None), s2_params is "none" or       *)
(* "given" for stage2_loop_filter_params.  env describes the decoder the   *)
(* run meets and is passed through.                                        *)
(***************************************************************************)
\* int(x), x held in half units: truncation toward zero
PyInt(x2) == IF x2 >= 0 THEN x2 \div 2 ELSE -((-x2) \div 2)

\* int(math.floor(x)), x held in half units
Floor(x2) == x2 \div 2

\* the entry code without the clamp to the length of the samples
TrackEntry_NoClamp(samples_x2, ms_arg_x2, s2, s2_params, multi, channels, env) ==
  LET samples_length_ms == PyInt(samples_x2 - 2 * MarginMs)
      ms1 == IF ms_arg_x2 = None THEN 2 * samples_length_ms ELSE ms_arg_x2
  IN  [ mode                      |-> "track",
        samples_x2                |-> samples_x2,
        ms_arg_x2                 |-> ms_arg_x2,
        ms_to_track_x2            |-> ms1,
        num_points                |-> Floor(ms1),
        stage2_coherent_ms        |-> s2,
        stage2_loop_filter_params |-> s2_params,
        multi                     |-> multi,
        channels                  |-> channels,
        env                       |-> env ]

TrackEntry(samples_x2, ms_arg_x2, s2, s2_params, multi, channels, env) ==
  LET samples_length_ms == PyInt(samples_x2 - 2 * MarginMs)
      ms1 == IF ms_arg_x2 = None THEN 2 * samples_length_ms ELSE ms_arg_x2
      ms2 == IF 2 * samples_length_ms < ms1 THEN 2 * samples_length_ms ELSE ms1
  IN  [ mode                      |-> "track",
        samples_x2                |-> samples_x2,
        ms_arg_x2                 |-> ms_arg_x2,
        ms_to_track_x2            |-> ms2,
        num_points                |-> Floor(ms2),
        stage2_coherent_ms        |-> s2,
        stage2_loop_filter_params |-> s2_params,
        multi                     |-> multi,
        channels                  |-> channels,
        env                       |-> env ]

\* the channels handed to track(): prn, and the phase of the transmitted bit
\* edges in this channel's samples (the block b, counted from 0, starts a new
\* bit when (b + 1) % 20 = bit_k)
Channels == << [prn |-> 2, bit_k |-> 4], [prn |-> 9, bit_k |-> 13] >>

\* TOW values the decoder may return.  A TOW is decoded once per subframe of
\* 6 s, so a run of a few ms sees at most one.
TowValues == {0, 6}

\* The decoder a run meets: one that may drop and re-adopt its bit phase and
\* return a TOW, and one that keeps the bit phase it adopted and returns no
\* TOW during the run.
FreeDecoder == [relock |-> TRUE, tow_values |-> TowValues]
StableDecoder == [relock |-> FALSE, tow_values |-> {}]

\* what nav_msg.update(corr, ms) may leave in the decoder
DecoderOutcomes(nm, ms) ==
  IF cfg.env.relock \/ nm.bit_phase_ref < 0
  THEN NavMsgOutcomes(nm, ms)
  ELSE {[nm EXCEPT !.bit_phase = (@ + ms) % BitLen]}

(***************************************************************************)
(* TrackResults.__init__(n_points) and resize(n_points).  code_freq holds  *)
(* the number of the loop filter command recorded (see loop_filter.cmd).   *)
(***************************************************************************)
TrackResultsInit(n_points) ==
  [ status       |-> "-",
    prn          |-> None,
    code_freq    |-> [j \in 1 .. n_points |-> 0],
    cn0          |-> [j \in 1 .. n_points |-> "zero"],
    tow          |-> [j \in 1 .. n_points |-> NaN],
    coherent_ms  |-> [j \in 1 .. n_points |-> 0],
    nav_msg      |-> NavMsgInit,
    nav_bit_sync |-> NavBitSyncInit("MatchBit", MatchBitThres) ]

TrackResultsResize(tr, n) ==
  [tr EXCEPT !.code_freq = SubSeq(@, 1, n),
             !.cn0 = SubSeq(@, 1, n),
             !.tow = SubSeq(@, 1, n),
             !.coherent_ms = SubSeq(@, 1, n)]

\* a[idx] for a numpy array kept as a sequence: a negative index counts from
\* the end
PyIndex(a, idx) == IF idx < 0 THEN a[Len(a) + idx + 1] ELSE a[idx + 1]

\* x + c in floating point: NaN stays NaN
FloatAdd(x, c) == IF x = NaN THEN NaN ELSE x + c

\* fractions num/den for the progress values; x - y
FracSub(x, y) == [num |-> x.num * y.den - y.num * x.den, den |-> x.den * y.den]

FracOne == [num |-> 1, den |-> 1]

(***************************************************************************)
(* The correlator (swiftnav.correlate.track_correlate, external): one call *)
(* consumes one block of 1 ms and fails when fewer samples remain.         *)
(***************************************************************************)
CorrelatorFails(sample_index, n, samples_x2) == 2 * (sample_index + n) > samples_x2

\* real part of the prompts summed over the n blocks from block b
RECURSIVE PromptSum(_, _, _)
PromptSum(bit_k, b, n) ==
  IF n = 0 THEN 0
  ELSE PatternSign("alt", bit_k, b + 1) + PromptSum(bit_k, b + 1, n - 1)

(***************************************************************************)
(* do_channel: lines 166-203, the state before the loop.  loop_filter.cmd  *)
(* numbers the code_freq/carr_freq pair the filter holds: 0 for the values *)
(* of start(), n for those the n-th update() produced.  calls lists the    *)
(* command each correlator call of the last step was given, reads the      *)
(* result indices i-1 the last step read, puts what went on q_progress.    *)
(***************************************************************************)
DoChannelEntry(chan, q_progress) ==
  [ pc           |-> "loop",
    exc          |-> "none",
    bit_k        |-> chan.bit_k,
    q_progress   |-> q_progress,
    loop_filter  |-> [params |-> "stage1", cmd |-> 0],
    cn0_est      |-> [loop_ms |-> 1, seed |-> "acq"],
    sample_index |-> 0,
    stage1       |-> TRUE,
    progress     |-> [num |-> 0, den |-> 1],
    puts         |-> <<>>,
    ms_tracked   |-> 0,
    i            |-> 0,
    calls        |-> <<>>,
    reads        |-> <<>>,
    tow          |-> None,
    tow_seen     |-> FALSE,
    track_result |-> [TrackResultsInit(cfg.num_points) EXCEPT !.prn = chan.prn] ]

\* line 205: ms_tracked < ms_to_track
LoopCond(d) == 2 * d.ms_tracked < cfg.ms_to_track_x2

\* line 211: the stage handover condition
Handover(d) ==
  /\ d.stage1
  /\ cfg.stage2_coherent_ms # 0
  /\ d.track_result.nav_msg.bit_phase = d.track_result.nav_msg.bit_phase_ref

\* the stage following the boundary test on every step, in both directions
AfterHandover_Toggle(d) ==
  IF /\ cfg.stage2_coherent_ms # 0
     /\ d.track_result.nav_msg.bit_phase = d.track_result.nav_msg.bit_phase_ref
  THEN [d EXCEPT !.stage1 = FALSE,
                 !.loop_filter.params = "stage2",
                 !.cn0_est = [loop_ms |-> cfg.stage2_coherent_ms,
                              seed |-> PyIndex(d.track_result.cn0, d.i - 1)],
                 !.reads = <<[arr |-> "cn0", idx |-> d.i - 1]>>]
  ELSE [d EXCEPT !.stage1 = TRUE, !.reads = <<>>]

\* lines 211-219: the handover, then coherent_ms of this step.  retune
\* replaces the filter's coefficients and keeps its frequencies.
AfterHandover(d) ==
  IF Handover(d)
  THEN [d EXCEPT !.stage1 = FALSE,
                 !.loop_filter.params = "stage2",
                 !.cn0_est = [loop_ms |-> cfg.stage2_coherent_ms,
                              seed |-> PyIndex(d.track_result.cn0, d.i - 1)],
                 !.reads = <<[arr |-> "cn0", idx |-> d.i - 1]>>]
  ELSE [d EXCEPT !.reads = <<>>]

\* line 214 with stage2_loop_filter_params = None: retune(*None) raises
HandoverRaises(d) == Handover(d) /\ cfg.stage2_loop_filter_params = "none"

StepCoherentMs(d) == IF d.stage1 THEN 1 ELSE cfg.stage2_coherent_ms

\* the loop filter updated after every correlator call
RECURSIVE CorrelatorLoop_UpdateEachCall(_, _)
CorrelatorLoop_UpdateEachCall(d, j) ==
  IF j = 0 THEN d
  ELSE CorrelatorLoop_UpdateEachCall(
         [d EXCEPT !.calls = Append(@, d.loop_filter.cmd),
                   !.loop_filter.cmd = @ + 1,
                   !.sample_index = @ + 1], j - 1)

\* lines 221-235: j correlator calls, each given the filter's current
\* frequencies and consuming one block
RECURSIVE CorrelatorLoop(_, _)
CorrelatorLoop(d, j) ==
  IF j = 0 THEN d
  ELSE CorrelatorLoop(
         [d EXCEPT !.calls = Append(@, d.loop_filter.cmd),
                   !.sample_index = @ + 1], j - 1)

\* line 244: tow or (track_result.tow[i-1] + coherent_ms)
TowOr(tow, tr, i, coherent_ms) ==
  IF tow # None /\ tow # 0 THEN tow
  ELSE FloatAdd(PyIndex(tr.tow, i - 1), coherent_ms)

\* the result indices line 244 reads
TowReads(tow, i) ==
  IF tow # None /\ tow # 0 THEN <<>> ELSE <<[arr |-> "tow", idx |-> i - 1]>>

\* lines 221-269: the rest of the step; nm2 and tow are what nav_msg.update
\* left and returned
StepBody(d, coherent_ms, nm2, tow) ==
  LET P   == PromptSum(d.bit_k, d.sample_index, coherent_ms)
      d1  == CorrelatorLoop([d EXCEPT !.calls = <<>>], coherent_ms)
      lf  == [d1.loop_filter EXCEPT !.cmd = @ + 1]
      tr  == d.track_result
      tr2 == [tr EXCEPT
                !.coherent_ms[d.i + 1] = coherent_ms,
                !.nav_bit_sync = NavBitSyncUpdate(@, P, coherent_ms, @.nav_msg),
                !.nav_msg = nm2,
                !.tow[d.i + 1] = TowOr(tow, tr, d.i, coherent_ms),
                !.code_freq[d.i + 1] = lf.cmd,
                !.cn0[d.i + 1] = "est"]
      i2  == d.i + 1
      ms2 == d.ms_tracked + coherent_ms
      report == d.q_progress /\ (i2 % ProgressEvery = 0)
      p   == [num |-> 2 * ms2, den |-> cfg.ms_to_track_x2]
  IN  [d1 EXCEPT !.loop_filter = lf,
                 !.track_result = tr2,
                 !.reads = @ \o TowReads(tow, d.i),
                 !.tow = tow,
                 !.tow_seen = @ \/ (tow # None),
                 !.i = i2,
                 !.ms_tracked = ms2,
                 !.puts = IF report THEN Append(@, FracSub(p, d.progress)) ELSE @,
                 !.progress = IF report THEN p ELSE @]

\* one iteration of the while loop, lines 205-269, that raises nothing: the
\* states it may leave
StepOutcomes(d) ==
  LET d1 == AfterHandover(d)
      coherent_ms == StepCoherentMs(d1)
  IN  { StepBody(d1, coherent_ms, nm2, tow) :
          nm2 \in DecoderOutcomes(d.track_result.nav_msg, coherent_ms),
          tow \in {None} \cup (IF d.tow_seen THEN {} ELSE cfg.env.tow_values) }

\* the iteration raises: retune(*None) at line 214, the correlator on a short
\* tail at line 224, or the write of index i >= num_points at line 238
StepRaises(d) ==
  LET d1 == AfterHandover(d)
      coherent_ms == StepCoherentMs(d1)
  IN  \/ HandoverRaises(d)
      \/ CorrelatorFails(d.sample_index, coherent_ms, cfg.samples_x2)
      \/ d.i >= cfg.num_points

\* do_channel's locals when the exception leaves it
RaisedState(d) ==
  LET d1 == AfterHandover(d)
      coherent_ms == StepCoherentMs(d1)
  IN  IF HandoverRaises(d)
      THEN [d EXCEPT !.pc = "raised", !.exc = "TypeError", !.stage1 = FALSE]
      ELSE IF CorrelatorFails(d.sample_index, coherent_ms, cfg.samples_x2)
      THEN [d1 EXCEPT !.pc = "raised", !.exc = "StreamExhausted",
                      !.sample_index = PyInt(cfg.samples_x2)]
      ELSE [CorrelatorLoop([d1 EXCEPT !.calls = <<>>], coherent_ms)
              EXCEPT !.pc = "raised", !.exc = "IndexError",
                     !.loop_filter.cmd = @ + 1]

\* lines 271-278: the loop has ended
FinishState(d) ==
  [d EXCEPT !.pc = "returned",
            !.track_result = TrackResultsResize([@ EXCEPT !.status = "T"], d.i),
            !.puts = IF d.q_progress
                     THEN Append(@, FracSub(FracOne, d.progress)) ELSE @]

\* what the properties keep of a returned TrackResults
Summary(tr) == [prn |-> tr.prn, status |-> tr.status, steps |-> Len(tr.coherent_ms)]

(***************************************************************************)
(* Actions of track() with multi = False: line 284 maps do_channel over    *)
(* the channels in order.                                                  *)
(***************************************************************************)
TrackInit(c) ==
  /\ nbs = NavBitSyncInit("MatchBit", MatchBitThres)
  /\ feed = FeedIdle
  /\ cfg = c
  /\ trk = [pc |-> "running", n |-> 0, track_results |-> <<>>, cancel |-> FALSE]
  /\ drv = [pc |-> "none"]
  /\ par = IF c.multi
           THEN [pc |-> "running",
                 workers |-> [k \in 1 .. Len(c.channels) |-> [pc |-> "none"]],
                 q_out |-> <<>>]
           ELSE [pc |-> "idle"]

InitTrack ==
  \E samples_ms \in (MarginMs + MaxTrackMs - 1) .. (MarginMs + MaxTrackMs),
     ms_arg \in {None, 4},
     s2 \in 0 .. MaxStage2 :
    TrackInit(TrackEntry(2 * samples_ms,
                         IF ms_arg = None THEN None ELSE 2 * ms_arg,
                         s2, "given", FALSE, Channels, FreeDecoder))

\* map() calls do_channel for the next channel
StartChannel_LastFirst ==
  /\ ~cfg.multi
  /\ trk.pc = "running"
  /\ drv.pc \in {"none", "returned"}
  /\ trk.n < Len(cfg.channels)
  /\ drv' = DoChannelEntry(cfg.channels[Len(cfg.channels) - trk.n], FALSE)
  /\ trk' = [trk EXCEPT !.n = @ + 1]
  /\ UNCHANGED <<nbs, feed, cfg, par>>

StartChannel ==
  /\ ~cfg.multi
  /\ trk.pc = "running"
  /\ drv.pc \in {"none", "returned"}
  /\ trk.n < Len(cfg.channels)
  /\ drv' = DoChannelEntry(cfg.channels[trk.n + 1], FALSE)
  /\ trk' = [trk EXCEPT !.n = @ + 1]
  /\ UNCHANGED <<nbs, feed, cfg, par>>

\* one iteration of the while loop
Step ==
  /\ trk.pc = "running"
  /\ drv.pc = "loop"
  /\ LoopCond(drv)
  /\ ~StepRaises(drv)
  /\ drv' \in StepOutcomes(drv)
  /\ UNCHANGED <<nbs, feed, cfg, trk, par>>

\* an iteration that raises: nothing catches the exception, which leaves
\* do_channel, the map of line 284 and track()
StepRaise ==
  /\ trk.pc = "running"
  /\ drv.pc = "loop"
  /\ LoopCond(drv)
  /\ StepRaises(drv)
  /\ drv' = RaisedState(drv)
  /\ trk' = [trk EXCEPT !.pc = "raised"]
  /\ UNCHANGED <<nbs, feed, cfg, par>>

\* the loop ends: lines 271-278
Finish ==
  /\ trk.pc = "running"
  /\ drv.pc = "loop"
  /\ ~LoopCond(drv)
  /\ drv' = FinishState(drv)
  /\ trk' = [trk EXCEPT !.track_results = Append(@, Summary(drv'.track_result))]
  /\ UNCHANGED <<nbs, feed, cfg, par>>

\* lines 286-291: track() returns track_results
TrackReturn ==
  /\ ~cfg.multi
  /\ trk.pc = "running"
  /\ drv.pc \in {"none", "returned"}
  /\ trk.n = Len(cfg.channels)
  /\ trk' = [trk EXCEPT !.pc = "finished"]
  /\ UNCHANGED <<nbs, feed, cfg, drv, par>>

Next == StartChannel \/ Step \/ StepRaise \/ Finish \/ TrackReturn

Spec == InitTrack /\ [][Next]_vars

(***************************************************************************)
(* Actions of track() with multi = True: line 281 hands do_channel and the *)
(* channels to pp.parmap, which runs do_channel(chan, q_progress=...) for  *)
(* every channel on a pool of workers, collects the results as the workers *)
(* deliver them and returns them in the order of the channels.  A worker   *)
(* whose do_channel raises delivers nothing.                               *)
(***************************************************************************)
Worker(k) == par.workers[k]

\* a worker takes a channel and enters do_channel
ParStart ==
  /\ par.pc = "running"
  /\ \E k \in DOMAIN par.workers :
       /\ Worker(k).pc = "none"
       /\ par' = [par EXCEPT !.workers[k] = DoChannelEntry(cfg.channels[k], TRUE)]
  /\ UNCHANGED <<nbs, feed, cfg, trk, drv>>

\* one iteration of the while loop in one worker
ParStep ==
  /\ par.pc = "running"
  /\ \E k \in DOMAIN par.workers :
       /\ Worker(k).pc = "loop"
       /\ LoopCond(Worker(k))
       /\ ~StepRaises(Worker(k))
       /\ \E d2 \in StepOutcomes(Worker(k)) :
            par' = [par EXCEPT !.workers[k] = d2]
  /\ UNCHANGED <<nbs, feed, cfg, trk, drv>>

\* an iteration that raises in one worker
ParRaise ==
  /\ par.pc = "running"
  /\ \E k \in DOMAIN par.workers :
       /\ Worker(k).pc = "loop"
       /\ LoopCond(Worker(k))
       /\ StepRaises(Worker(k))
       /\ par' = [par EXCEPT !.workers[k] = RaisedState(Worker(k))]
  /\ UNCHANGED <<nbs, feed, cfg, trk, drv>>

\* a worker's do_channel returns and its result is delivered
ParFinish ==
  /\ par.pc = "running"
  /\ \E k \in DOMAIN par.workers :
       /\ Worker(k).pc = "loop"
       /\ ~LoopCond(Worker(k))
       /\ LET d2 == FinishState(Worker(k))
          IN  par' = [par EXCEPT !.workers[k] = d2,
                                 !.q_out = Append(@, [n |-> k,
                                                      res |-> Summary(d2.track_result)])]
  /\ UNCHANGED <<nbs, feed, cfg, trk, drv>>

\* the delivered results put in the order of the channels
InChannelOrder(q_out) ==
  [j \in 1 .. Len(q_out) |->
     (CHOOSE e \in {q_out[x] : x \in DOMAIN q_out} : e.n = j).res]

\* every result is in: parmap returns and so does track()
ParReturn ==
  /\ par.pc = "running"
  /\ Len(par.q_out) = Len(cfg.channels)
  /\ par' = [par EXCEPT !.pc = "returned"]
  /\ trk' = [trk EXCEPT !.pc = "finished",
                        !.track_results = InChannelOrder(par.q_out)]
  /\ UNCHANGED <<nbs, feed, cfg, drv>>

NextPar == ParStart \/ ParStep \/ ParRaise \/ ParFinish \/ ParReturn

\* track() on short buffers: whole and fractional lengths and requests,
\* stage 2 off and on, with and without its loop filter parameters, both
\* values of multi.  The buffer holds at least the 22 ms of margin.
InitTrackAny ==
  \E samples_x2 \in (2 * (MarginMs + MaxEntryMs) - 1) .. (2 * (MarginMs + MaxEntryMs)),
     ms_arg_x2 \in {None, 4, 5, 2 * (MaxEntryMs + 30)},
     s2 \in {0, 2, 3},
     s2_params \in {"none", "given"},
     multi \in BOOLEAN :
    TrackInit(TrackEntry(samples_x2, ms_arg_x2, s2, s2_params, multi, Channels,
                         IF multi THEN StableDecoder ELSE FreeDecoder))

NextTrack == Next \/ NextPar

SpecTrack == InitTrackAny /\ [][NextTrack]_vars

\* the caller asks for cancellation: no parameter of track() and no object
\* do_channel reads carries the request
RequestCancel ==
  /\ trk.pc = "running"
  /\ ~trk.cancel
  /\ trk' = [trk EXCEPT !.cancel = TRUE]
  /\ UNCHANGED <<nbs, feed, cfg, drv, par>>

NextCancel == NextTrack \/ RequestCancel

SpecCancel == InitTrackAny /\ [][NextCancel]_vars

\* track() with multi = True on one channel and a run long enough for the
\* periodic progress reports
InitLong ==
  \E ms_arg \in (MaxLongMs - 1) .. MaxLongMs,
     s2 \in {0, 2},
     s2_params \in {"none", "given"} :
    TrackInit(TrackEntry(2 * (MaxLongMs + MarginMs), 2 * ms_arg, s2, s2_params,
                         TRUE, SubSeq(Channels, 1, 1), StableDecoder))

SpecProgress == InitLong /\ [][NextPar]_vars

(***************************************************************************)
(* Properties.                                                             *)
(***************************************************************************)
Active == drv.pc # "none"

\* the steps recorded so far and their coherent_ms
Recorded == 1 .. drv.i
CoherentMs(j) == drv.track_result.coherent_ms[j]
S2 == cfg.stage2_coherent_ms

\* C1: the driver leaves stage 1 (stage1 becomes false, the loop filter is
\* retuned, the C/N0 estimator rebuilt) only at a step that starts with the
\* channel's nav_bit_sync synced and its bit_phase equal to its bit_phase_ref.
C1_HandoverOnlyWhenBitSynced ==
  [][ (/\ drv.pc = "loop"
       /\ drv'.pc \in {"loop", "raised"}
       /\ drv.stage1
       /\ ~drv'.stage1)
      => (/\ drv.track_result.nav_bit_sync.synced
          /\ drv.track_result.nav_bit_sync.bit_phase
               = drv.track_result.nav_bit_sync.bit_phase_ref) ]_vars

\* C2: the recorded coherent_ms are 1s followed by stage2_coherent_ms: each
\* entry is 1 or stage2_coherent_ms, a step taken in stage 1 records 1, after
\* an entry of stage2_coherent_ms no entry differs from it, stage 2 never
\* returns to stage 1, and without stage2_coherent_ms every entry is 1.
C2_State ==
  Active =>
    /\ \A j \in Recorded : CoherentMs(j) \in {1, S2} /\ CoherentMs(j) # 0
    /\ \A j \in Recorded : \A l \in Recorded :
         (j < l /\ CoherentMs(j) # 1) => CoherentMs(l) = CoherentMs(j)
    /\ drv.stage1 => \A j \in Recorded : CoherentMs(j) = 1
    /\ (S2 = 0) => (drv.stage1 /\ \A j \in Recorded : CoherentMs(j) = 1)

C2_Step ==
  (drv.pc = "loop" /\ drv'.pc \in {"loop", "raised", "returned"})
    => /\ ~drv.stage1 => ~drv'.stage1
       /\ (drv'.i = drv.i + 1) =>
            drv'.track_result.coherent_ms[drv'.i] = (IF drv'.stage1 THEN 1 ELSE S2)

C2_CoherentMsOnesThenStage2 == [](C2_State) /\ [][C2_Step]_vars

C2_Witness ==
  /\ Active
  /\ S2 >= 2
  /\ \E j \in Recorded : \E l \in Recorded :
       j < l /\ CoherentMs(j) = 1 /\ CoherentMs(l) = S2

\* C3: once a synchroniser is synced it stays synced and its bit_phase_ref
\* never changes, whatever is fed to it.
C3_SyncedIsFinal ==
  [][ nbs.synced => (nbs'.synced /\ nbs'.bit_phase_ref = nbs.bit_phase_ref) ]_vars

C3_Witness ==
  /\ feed.mode = "free"
  /\ nbs.variant = "Histogram"
  /\ nbs.synced
  /\ Len(nbs.bits) >= 2

\* C4: after every update bit_phase is in 0..19, synced holds exactly when
\* bit_phase_ref is in 0..19 (it is -1 before), bits is empty while not
\* synced, and a call appends at most one bit, only when it ends synced with
\* bit_phase = bit_phase_ref, and then leaves bit_integrate at 0.
C4_State ==
  /\ nbs.bit_phase \in 0 .. 19
  /\ nbs.synced <=> nbs.bit_phase_ref \in 0 .. 19
  /\ ~nbs.synced => (nbs.bit_phase_ref = -1 /\ nbs.bits = <<>>)

C4_Step ==
  /\ Len(nbs'.bits) \in {Len(nbs.bits), Len(nbs.bits) + 1}
  /\ (Len(nbs'.bits) = Len(nbs.bits) + 1)
       => /\ nbs'.synced
          /\ nbs'.bit_phase = nbs'.bit_phase_ref
          /\ nbs'.bit_integrate = 0

C4_BitSyncInvariants == [](C4_State) /\ [][C4_Step]_vars

C4_Witness ==
  /\ feed.mode = "free"
  /\ nbs.variant = "MatchBit"
  /\ nbs.synced
  /\ Len(nbs.bits) >= 1
  /\ nbs.bit_phase = nbs.bit_phase_ref

\* C5: when a correlator call fails for lack of samples, the channel ends
\* with status 'T' and its arrays cut to the steps completed, and track()
\* goes on.
C5_ExhaustedChannelEndsT ==
  (drv.pc = "raised")
    => /\ drv.track_result.status = "T"
       /\ Len(drv.track_result.coherent_ms) = drv.i
       /\ trk.pc = "running"

\* the phase bit_phase_ref has to take for a pattern whose bits start at k
TransitionPhase(k) == (k + 19) % BitLen

AltPattern == feed.mode = "pattern" /\ feed.kind = "alt"

\* C6 as stated: NBSMatchBit with thres = 20 on a pattern with bit edges every
\* 20 calls is synced, with bit_phase_ref = (k + 19) mod 20, within the 20
\* calls that follow the 20 calls of warm-up.
C6_SyncWithinOneCycle ==
  (AltPattern /\ nbs.count >= 40)
    => (nbs.synced /\ nbs.bit_phase_ref = TransitionPhase(feed.k))

\* the call at which the lead of the largest histogram bin, which grows by
\* twice the magnitude per cycle of 20 calls, first exceeds thres * 2 *
\* magnitude at a call of bit phase 19
MatchBitSyncCall == 20 * MatchBitThres + 39

\* C6 amended: on bits of alternating sign the synchroniser is not synced
\* before call 439 and is synced from call 439 on, with
\* bit_phase_ref = (k + 19) mod 20, for every k and every magnitude.
C6_SyncAtCall439 ==
  AltPattern =>
    /\ nbs.count < MatchBitSyncCall => ~nbs.synced
    /\ nbs.count >= MatchBitSyncCall
         => (nbs.synced /\ nbs.bit_phase_ref = TransitionPhase(feed.k))

C6_Witness ==
  /\ AltPattern
  /\ nbs.count = MatchBitSyncCall
  /\ nbs.synced
  /\ nbs.bit_phase_ref = TransitionPhase(feed.k)

\* the bit transmitted in the 20 calls that end with call n
SentBit(n) == IF PatternSign("alt", feed.k, n) = 1 THEN 1 ELSE 0

\* the call that ends the first bit decided: the first one from call 439 on
\* whose bit phase is the transition phase
FirstBitCall ==
  CHOOSE n \in MatchBitSyncCall .. (MatchBitSyncCall + BitLen - 1) :
    n % BitLen = TransitionPhase(feed.k)

\* C7 as stated: after 400 samples of the pattern the synchroniser is synced
\* at the transition phase and its bits begin 1, 0, 1, 0, ...
C7_SyncedAfter400 ==
  (feed.mode = "pattern" /\ nbs.count = 400)
    => /\ nbs.synced
       /\ nbs.bit_phase_ref = TransitionPhase(feed.k)
       /\ Len(nbs.bits) >= 1
       /\ \A j \in 1 .. Len(nbs.bits) : nbs.bits[j] = j % 2

\* C7 amended: after 480 samples of alternating bits the synchroniser is
\* synced at the transition phase and every bit it decided, in order, is the
\* bit transmitted in the 20 calls it closes; none was decided before call 439.
C7_DecodedBitsAfter480 ==
  (AltPattern /\ nbs.count = 480)
    => /\ nbs.synced
       /\ nbs.bit_phase_ref = TransitionPhase(feed.k)
       /\ Len(nbs.bits) = ((480 - FirstBitCall) \div BitLen) + 1
       /\ \A j \in 1 .. Len(nbs.bits) :
            nbs.bits[j] = SentBit(FirstBitCall + BitLen * (j - 1))

C7_Witness ==
  /\ AltPattern
  /\ nbs.count = 480
  /\ Len(nbs.bits) >= 2
  /\ nbs.bits[1] # nbs.bits[2]

\* C8: NBSMatchEdge, once 40 calls are behind it, adds |acc| to
\* hist[(bp40 + 1) mod 20] on every call until it is synced.
C8_MatchEdgeFillsHistogram ==
  [][ (/\ feed.mode = "free"
       /\ nbs.variant = "MatchEdge"
       /\ nbs.count >= 40
       /\ nbs'.count = nbs.count + 1)
      => LET bp40 == nbs'.bit_phase % 40
         IN  nbs'.hist[(bp40 + 1) % 20]
               = nbs.hist[(bp40 + 1) % 20] + Abs(nbs'.acc) ]_vars

\* C9: counting from the handover, which the decoder placed on a bit
\* boundary, no stage-2 integration window has a bit boundary (a multiple of
\* 20 ms) strictly inside it.
C9_Stage2WindowsInsideOneBit ==
  (Active /\ S2 >= 2) =>
    LET first == CHOOSE f \in 1 .. (drv.i + 1) :
                   /\ \A j \in 1 .. (f - 1) : CoherentMs(j) = 1
                   /\ (f <= drv.i => CoherentMs(f) = S2)
    IN  \A j \in first .. drv.i :
          \A d \in 1 .. (S2 - 1) : ((j - first) * S2 + d) % BitLen # 0

\* C10: a TOW value returned by the decoder at a step, 0 included, is the
\* tow recorded for that step; with no value returned the tow recorded is the
\* previous one plus coherent_ms.
C10_TowRecorded ==
  (Active /\ drv.pc # "raised" /\ drv.i >= 1) =>
    /\ (drv.tow # None) => drv.track_result.tow[drv.i] = drv.tow
    /\ (drv.tow = None /\ drv.i >= 2)
         => drv.track_result.tow[drv.i]
              = FloatAdd(drv.track_result.tow[drv.i - 1], CoherentMs(drv.i))

\* do_channel's locals wherever it runs or has run: the sequential driver and
\* the workers
Drivers ==
  {d \in {drv} \cup (IF par.pc = "idle" THEN {}
                     ELSE {par.workers[k] : k \in DOMAIN par.workers}) :
     d.pc # "none"}

Min(a, b) == IF a < b THEN a ELSE b

\* C11: the tracking length track() settles on is the smaller of the length
\* asked for and int(1e3*len(samples)/sampling_freq - 22), the latter when
\* none is asked for; with stage 2 off no channel raises for a whole length
\* and every channel that returns holds exactly that many steps; half a
\* second of samples with 1000 ms asked for gives 478.
C11_ClampedLengthIsStepCount ==
  (cfg.mode = "track") =>
    LET avail == 2 * PyInt(cfg.samples_x2 - 2 * MarginMs)
    IN  /\ cfg.ms_to_track_x2 = (IF cfg.ms_arg_x2 = None THEN avail
                                 ELSE Min(cfg.ms_arg_x2, avail))
        /\ (S2 = 0) =>
             \A d \in Drivers :
               /\ (d.pc = "raised") => (cfg.ms_to_track_x2 % 2 = 1)
               /\ (d.pc = "returned") =>
                    2 * Len(d.track_result.coherent_ms) = cfg.ms_to_track_x2
        /\ (S2 = 0 /\ trk.pc = "finished") =>
             \A j \in DOMAIN trk.track_results :
               2 * trk.track_results[j].steps = cfg.ms_to_track_x2
        /\ TrackEntry(1000, 2000, 0, "none", FALSE, Channels, FreeDecoder).num_points = 478

C11_Witness ==
  /\ cfg.mode = "track"
  /\ S2 = 0
  /\ cfg.ms_arg_x2 # None
  /\ cfg.ms_arg_x2 > cfg.ms_to_track_x2
  /\ trk.pc = "finished"
  /\ Len(trk.track_results) = 2
  /\ \A j \in 1 .. 2 : trk.track_results[j].steps = MaxEntryMs

\* C12: with stage2_coherent_ms set and stage2_loop_filter_params missing,
\* track() fails at entry: no channel driver is ever started.
C12_InvalidParamsRejectedAtEntry ==
  (/\ cfg.mode = "track"
   /\ cfg.stage2_coherent_ms # 0
   /\ cfg.stage2_loop_filter_params = "none")
    => Drivers = {}

\* C13: once cancellation is requested, the next thing a running channel
\* driver does is return, with status 'C' and its arrays cut to the steps it
\* completed.
C13_CancelStopsWithinOneStep ==
  [][ (/\ trk.cancel
       /\ drv.pc = "loop"
       /\ drv' # drv)
      => (/\ drv'.pc = "returned"
          /\ drv'.track_result.status = "C"
          /\ Len(drv'.track_result.coherent_ms) = drv.i) ]_vars

C15_ProgressIncrementsNonNegative ==
  \A d \in Drivers :
    \A j \in DOMAIN d.puts : d.puts[j].num * d.puts[j].den >= 0

\* C16: a channel driver takes at most num_points steps, never writes a
\* result index >= num_points, and when it stops it has returned with
\* ms_tracked >= ms_to_track, its arrays cut to the steps taken and status 'T'.
C16_AtMostNumPointsSteps ==
  \A d \in Drivers :
    /\ d.i <= cfg.num_points
    /\ d.exc # "IndexError"
    /\ (d.pc = "returned") =>
         /\ 2 * d.ms_tracked >= cfg.ms_to_track_x2
         /\ Len(d.track_result.coherent_ms) = d.i
         /\ d.track_result.status = "T"

\* C17: after n steps of a channel the loop filter has been updated n times;
\* the correlator calls of the n-th step, coherent_ms of them, were all given
\* the command of the update of the step before (that of start() in the first
\* step), which is the code_freq recorded by the step before; the code_freq
\* the n-th step recorded is the command of its own update.
C17_OneFilterUpdatePerStep ==
  \A d \in Drivers :
    (d.pc \in {"loop", "returned"} /\ d.i >= 1) =>
      /\ d.loop_filter.cmd = d.i
      /\ Len(d.calls) = d.track_result.coherent_ms[d.i]
      /\ \A c \in DOMAIN d.calls : d.calls[c] = d.i - 1
      /\ d.track_result.code_freq[d.i] = d.i
      /\ (d.i >= 2) =>
           \A c \in DOMAIN d.calls : d.calls[c] = d.track_result.code_freq[d.i - 1]

C17_Witness ==
  \E d \in Drivers :
    /\ d.pc = "loop"
    /\ S2 = 3
    /\ d.i >= 2
    /\ d.track_result.coherent_ms[d.i] = 3
    /\ Len(d.calls) = 3

\* C18: no step reads a result at an index below 0: every read of index i-1
\* is made by a step i >= 1.
C18_NoReadBeforeFirstStep ==
  \A d \in Drivers :
    \A r \in DOMAIN d.reads : d.reads[r].idx >= 0

\* the prompt of call n of the pattern
Input(n) == feed.amp * PatternSign(feed.kind, feed.k, n)

\* the sum of the prompts of the m calls that end with call n
RECURSIVE InputSum(_, _)
InputSum(n, m) == IF m = 0 THEN 0 ELSE Input(n) + InputSum(n - 1, m - 1)

\* C19: when the next call appends a bit, the value whose sign is the bit,
\* bit_integrate plus that call's prompt, is the sum of the 20 prompts that
\* end with that call.
C19_BitCoversTwentyCalls ==
  (/\ feed.mode = "pattern"
   /\ nbs.synced
   /\ (nbs.bit_phase + 1) % BitLen = nbs.bit_phase_ref)
    => nbs.bit_integrate + Input(nbs.count + 1) = InputSum(nbs.count + 1, BitLen)

\* the sum of the entries of the ring buffer
RECURSIVE SumPrev(_, _)
SumPrev(a, n) == IF n = 0 THEN 0 ELSE a[n - 1] + SumPrev(a, n - 1)

\* C20: NBSMatchBit, unsynced and fed ms = 1: after every update
\* bit_integrate is the sum of the entries of prev, which is the sum of the
\* last min(count, 20) prompts; hist is all zero until call 20 and changes
\* only on calls with count >= 20.
C20_State ==
  (feed.mode = "pattern" /\ ~nbs.synced) =>
    /\ nbs.bit_integrate = SumPrev(nbs.prev, BitLen)
    /\ nbs.bit_integrate = InputSum(nbs.count, Min(nbs.count, BitLen))
    /\ (nbs.count < 20) => (nbs.hist = Zeros(BitLen))

C20_Step ==
  (feed.mode = "pattern" /\ nbs'.hist # nbs.hist) => nbs'.count >= 20

C20_BitIntegrateIsRingSum == [](C20_State) /\ [][C20_Step]_vars

C20_Witness ==
  /\ feed.mode = "pattern"
  /\ ~nbs.synced
  /\ nbs.count = 45
  /\ nbs.hist[5] > 0
  /\ nbs.bit_integrate # 0

====
